---- MODULE Spec2Model ----
(***************************************************************************)
(* Model of the screen translator's monitoring loop and translation task.  *)
(* The repository ships two servers over the same pipeline:                *)
(*   "app"  the package src/app (routers/endpoints/translation.py,         *)
(*          services/screen_service.py), and                               *)
(*   "api"  the single-file server src/api.py (TranslationService).        *)
(* The variable server fixes which of the two a behaviour runs.            *)
(***************************************************************************)
EXTENDS Integers, Sequences, FiniteSets, TLC

(* ---------------------------------------------------------------- bounds *)
\* translation tasks (uuid4 ids) created in one behaviour
MaxTasks == 2
\* progress callbacks a worker thread posts during one backend call
MaxProgress == 1
\* monitor loop coroutines alive at once
MaxLoops == 1
\* monitor loops alive at a time when the client repeats the start request
MaxStarts == 2
\* messages published to the websocket clients in one behaviour
MaxEvents == 2

TaskIds == 1..MaxTasks
LoopIds == 1..(IF MaxStarts > MaxLoops THEN MaxStarts ELSE MaxLoops)
\* window handles; NoHwnd stands for Python's None
Sources == {1, 2}
NoHwnd == 0
\* settings.similarity_threshold as the server starts, in percent
similarity_threshold == 90
\* captured bitmaps; NoImage stands for None (and for a failed capture)
Frames == {"f1", "f2"}
\* websocket clients, and the coroutines that can be inside a broadcast: the
\* message processor and one direct caller (a task or an endpoint)
Clients == {"a", "b"}
Casters == {"processor", "direct"}
NoImage == "none"
\* the white 800x600 image the app's screenshot_window returns when the capture
\* fails
Blank == "blank"
\* the np.zeros image pil_to_cv2 returns when the conversion raises
Black == "black"
\* every bitmap the similarity gate can be handed
Bitmaps == Frames \cup {Blank, Black}

VARIABLES
    server,                   \* "app" | "api"
    selected_hwnd,            \* app_state["selected_window"].hwnd / self.selected_hwnd
    monitoring_paused,        \* app_state["monitoring_paused"] / self.monitoring_paused
    task_state,               \* [is_running]: app_state["task_state"] / self.task_state
    last_image, last_hwnd,    \* the frame cache
    translation_task_running, \* app: module flag of monitoring_task
    translation_task_cancel,  \* app: module flag
    pipeline_running,         \* api: self.pipeline_running
    stop_event,               \* api: self.stop_event.is_set()
    monitor_task,             \* api: self.monitor_task (a loop id, 0 for None)
    loops,                    \* monitor loop coroutines
    tasks,                    \* translation tasks
    next_id,                  \* next task id to hand out
    ready,                    \* app: per task id, its handles in the event loop's FIFO
    published,                \* per task id, the results published to the clients
    results,                  \* result collection, as task ids
    source_changed,           \* history: select_source moved away from the cached source
    reset_pending,            \* history: cache.reset() was called, no cycle since
    last_cycle,               \* history: the decision of the monitor cycle just taken
    active_connections,       \* manager.active_connections / self.connections (a list)
    casts,                    \* per caster, the broadcast it is suspended in
    ws_message_queue,         \* app: messages waiting for process_ws_messages
    received,                 \* per client, the messages it was sent, in order
    next_event,               \* number of the next message published
    settings,                 \* app_state["settings"] / self.settings
    last_call,                \* history: the request handled in the step just taken
    compared,                 \* history: the last comparison of two bitmaps on its own
    gui                       \* gui.py: the fields of OCRApp and its ocr_loop thread

vars == <<server, selected_hwnd, monitoring_paused, task_state, last_image, last_hwnd,
          translation_task_running, translation_task_cancel, pipeline_running,
          stop_event, monitor_task, loops, tasks, next_id, ready, published,
          results, source_changed, reset_pending, last_cycle, active_connections,
          casts, ws_message_queue, received, next_event, settings, last_call,
          compared, gui>>

appFlags == <<translation_task_running, translation_task_cancel>>
apiFlags == <<pipeline_running, stop_event, monitor_task>>
cache == <<last_image, last_hwnd>>
sink == <<ready, published>>
flags == <<source_changed, reset_pending>>
wire == <<active_connections, casts, ws_message_queue, received, next_event>>

(* ------------------------------------------------------------ data model *)
NoTask == [pc |-> "none", hwnd |-> NoHwnd, img |-> NoImage, trigger |-> "none",
           owner |-> 0, posts |-> 0, returned |-> FALSE, stopped |-> FALSE,
           halted |-> FALSE, timer |-> FALSE, ticks |-> 0, timeout |-> 0,
           timeout0 |-> 0, screenshot |-> NoImage]
NoLoop == [pc |-> "none", hwnd |-> NoHwnd, img |-> NoImage, sim |-> FALSE, task |-> 0,
           chg |-> FALSE, rst |-> FALSE]
\* a caster outside broadcast; inside, idx is the list iterator's position,
\* failed the clients whose send raised, and (history) stay the clients connected
\* since the call began, got those the message was sent to
NoCast == [pc |-> "idle", msg |-> 0, idx |-> 0, failed |-> {}, stay |-> {}, got |-> {}]
\* no comparison made yet
\* OCRApp after __init__: no window, pipeline off, no ocr_loop thread (ocr is
\* the thread's position), no error box shown; by (history) is the thread that
\* took the last step
NoApp == [selected_hwnd |-> NoHwnd, running |-> FALSE, stop_ocr_event |-> FALSE,
          stop_translation_event |-> FALSE, ocr |-> "none", last_image |-> NoImage,
          ocr_timer_active |-> FALSE, translation_timer_active |-> FALSE,
          ocr_time |-> 0, errors |-> 0, by |-> "none"]
NoGate == [img1 |-> NoImage, img2 |-> NoImage, threshold |-> 0, conv1 |-> FALSE,
           conv2 |-> FALSE, raised |-> FALSE, out |-> FALSE]
NoCycle == [outcome |-> "none", after_change |-> FALSE, after_reset |-> FALSE,
            gate |-> "none", visible |-> FALSE]

\* history: a request of a client that changes state while websocket clients are
\* connected, and whether its handler called broadcast_status (which returns at
\* once when nobody is connected)
NoCall == [op |-> "none", status |-> FALSE]
Call(op, status) ==
    last_call' = IF active_connections = <<>> THEN NoCall
                 ELSE [op |-> op, status |-> status]
NotACall == last_call' = NoCall

\* a step that is no monitor cycle leaves no cycle decision behind
NotACycle == last_cycle' = NoCycle

\* stages in which a task is not yet terminal
NonTerminal == {"capturing", "ocr", "translating", "logging"}
Running(t) == tasks[t].pc \in NonTerminal
RunningTasks == {t \in TaskIds : Running(t)}

\* TranslationResult as a subscriber sees it; after_stop (history) tells whether
\* the task built it after a stop of the task had been called
Event(t, stage, streaming) == [id |-> t, stage |-> stage, is_streaming |-> streaming,
                              after_stop |-> tasks[t].stopped]
\* handles of the event loop: a posted stream_callback ("cb"), a scheduled put
\* on the message queue ("enq"), or the completion of an executor call ("wake")
Handle(k, ev, res, img) == [k |-> k, ev |-> ev, res |-> res, img |-> img]
Wake(t, stage, res, img) ==
    Handle("wake", [id |-> t, stage |-> stage, is_streaming |-> TRUE,
                    after_stop |-> FALSE], res, img)
\* history: control(stop) was called while these tasks were in flight
MarkHalted(ts) ==
    [t \in TaskIds |-> IF ts[t].pc \in NonTerminal THEN [ts[t] EXCEPT !.halted = TRUE]
                       ELSE ts[t]]

\* a task that has ended keeps its outcome and whether it had been stopped
Retired(task, pc) == [NoTask EXCEPT !.pc = pc, !.stopped = task.stopped]

Init ==
    /\ server \in {"app", "api", "gui"}
    /\ selected_hwnd = NoHwnd
    /\ monitoring_paused = TRUE
    /\ task_state = [is_running |-> FALSE]
    /\ last_image = NoImage
    /\ last_hwnd = NoHwnd
    /\ translation_task_running = FALSE
    /\ translation_task_cancel = FALSE
    /\ pipeline_running = FALSE
    /\ stop_event = FALSE
    /\ monitor_task = 0
    /\ loops = [l \in LoopIds |-> NoLoop]
    /\ tasks = [t \in TaskIds |-> NoTask]
    /\ next_id = 1
    /\ ready = [t \in TaskIds |-> <<>>]
    /\ published = [t \in TaskIds |-> <<>>]
    /\ results = <<>>
    /\ source_changed = FALSE
    /\ reset_pending = FALSE
    /\ last_cycle = NoCycle
    /\ active_connections = <<>>
    /\ casts = [c \in Casters |-> NoCast]
    /\ ws_message_queue = <<>>
    /\ received = [s \in Clients |-> <<>>]
    /\ next_event = 1
    /\ settings = [check_interval |-> 3, similarity_threshold |-> similarity_threshold,
                   timeout |-> 45]
    /\ last_call = NoCall
    /\ compared = NoGate
    /\ gui = NoApp

(* ------------------------------------------------------- similarity gate *)
\* the gray levels of a bitmap, here two pixels that are black (0) or white (1,
\* for 255)
Gray(img) == CASE img = "f1" -> <<0, 1>>
               [] img = "f2" -> <<1, 0>>
               [] img = Blank -> <<1, 1>>
               [] OTHER -> <<0, 0>>

\* Global SSIM of two frames, in percent (rounded down). With K the sum of the
\* gray levels and q the sum of their squares, the means are K/2, the variances
\* (2q - K*K)/4 and the covariance (2s - K1*K2)/4; C1 = 0.0001 and C2 = 0.0009 in
\* units of 255*255. Each factor is taken times 10000.
ssim_score(img1, img2) ==
    LET a == Gray(img1)
        b == Gray(img2)
        K1 == a[1] + a[2]
        K2 == b[1] + b[2]
        q1 == a[1] * a[1] + a[2] * a[2]
        q2 == b[1] * b[1] + b[2] * b[2]
        s == a[1] * b[1] + a[2] * b[2]
        numerator == (5000 * K1 * K2 + 1) * (5000 * (2 * s - K1 * K2) + 9)
        denominator == (2500 * (K1 * K1 + K2 * K2) + 1)
                           * (2500 * ((2 * q1 - K1 * K1) + (2 * q2 - K2 * K2)) + 9)
        r == numerator % denominator
    IN  100 * (numerator \div denominator) + 10 * ((10 * r) \div denominator)
            + (10 * ((10 * r) % denominator)) \div denominator

\* C24 mutant: a gate that wants the score above the threshold
images_are_strictly_similar(img1, img2, threshold) == ssim_score(img1, img2) > threshold

images_are_similar(img1, img2, threshold) == ssim_score(img1, img2) >= threshold

\* app/utils/image.py pil_to_cv2: the bitmap, or the zero image when the
\* conversion raised
pil_to_cv2(img, raised) == IF raised THEN Black ELSE img

\* app/utils/image.py images_are_similar with its handlers: conv1 and conv2 tell
\* whether the conversion of a frame raised, raised whether the resize or the
\* scoring did (the answer is then False)
images_are_similar_try(img1, img2, threshold, conv1, conv2, raised) ==
    IF raised THEN FALSE
    ELSE images_are_similar(pil_to_cv2(img1, conv1), pil_to_cv2(img2, conv2), threshold)

\* one call of images_are_similar on two bitmaps
compare_images(img1, img2, threshold, conv1, conv2, raised) ==
    /\ server = "app"
    /\ compared' = [img1 |-> img1, img2 |-> img2, threshold |-> threshold,
                     conv1 |-> conv1, conv2 |-> conv2, raised |-> raised,
                out |-> images_are_similar_try(img1, img2, threshold, conv1, conv2,
                                               raised)]
    /\ UNCHANGED <<server, gui, wire, settings, selected_hwnd, monitoring_paused, task_state,
                   cache, appFlags, apiFlags, loops, tasks, next_id, sink, results, flags>>
    /\ NotACycle
    /\ NotACall

(* ----------------------------------------------------- app: frame cache *)
\* C11 mutant: a gate that lets every frame through
should_process_always(hwnd, threshold, visible, shot) == TRUE

\* ScreenTranslationService.should_process_new_image; visible and shot are what
\* is_window_visible and screenshot_window answer (shot = NoImage: the capture
\* or the comparison raised)
should_process_new_image(hwnd, threshold, visible, shot) ==
    IF last_image = NoImage \/ last_hwnd # hwnd THEN TRUE
    ELSE IF ~visible THEN FALSE
    ELSE IF shot = NoImage THEN TRUE
    ELSE ~images_are_similar(shot, last_image, threshold)

\* POST /cache/reset
reset_cache ==
    /\ server = "app"
    /\ last_image' = NoImage
    /\ last_hwnd' = NoHwnd
    /\ reset_pending' = TRUE
    /\ UNCHANGED <<server, gui, compared, wire, settings, selected_hwnd, monitoring_paused, task_state, appFlags,
                   apiFlags, loops, tasks, next_id, sink, results, source_changed>>
    /\ NotACycle
    /\ Call("reset_cache", FALSE)

\* history: does selecting h change the source while the cache holds a frame of
\* another source
SourceChanged(h) ==
    IF h = last_hwnd THEN FALSE
    ELSE IF h # selected_hwnd /\ last_image # NoImage THEN TRUE
    ELSE source_changed

\* POST /window/select
select_window(h) ==
    /\ server = "app"
    /\ selected_hwnd' = h
    /\ source_changed' = SourceChanged(h)
    /\ UNCHANGED <<server, gui, compared, wire, settings, monitoring_paused, task_state, cache, appFlags, apiFlags,
                   loops, tasks, next_id, sink, results, reset_pending>>
    /\ NotACycle
    /\ Call("select_window", FALSE)

(* ------------------------------------------------ app: translation task *)
\* stream_translation_callback(result) called on the event loop thread: the put
\* on ws_message_queue is scheduled with call_soon_threadsafe, behind every
\* handle already in the loop's queue (the queue exists once a client connected)
stream_translation_callback(q, ev) ==
    [q EXCEPT ![ev.id] = Append(@, Handle("enq", ev, "", NoImage))]

\* the loop's FIFO runs its handles in the order they were posted. The handles of
\* different tasks touch different tasks, and the threads that post them are not
\* ordered with each other, so the FIFO is kept as one queue per task id.
Post(q, h) == [q EXCEPT ![h.ev.id] = Append(@, h)]
Pop(q, t) == [q EXCEPT ![t] = Tail(@)]
AtHead(t, k) == ready[t] # <<>> /\ Head(ready[t]).k = k

\* one_time_translation_task up to its first suspension: the task state is set,
\* translate_screen emits the capturing result and awaits the screenshot
one_time_translation_task(t, trigger, owner) ==
    /\ t <= MaxTasks
    /\ tasks' = [tasks EXCEPT ![t] = [pc |-> "capturing", hwnd |-> selected_hwnd,
                     img |-> NoImage, trigger |-> trigger, owner |-> owner,
                     posts |-> 0, returned |-> FALSE, stopped |-> FALSE,
                     halted |-> FALSE, timer |-> TRUE, ticks |-> 0,
                     timeout |-> settings.timeout,
                     timeout0 |-> settings.timeout]]
    /\ next_id' = t + 1
    /\ task_state' = [is_running |-> TRUE]
    /\ ready' = stream_translation_callback(ready, Event(t, "capturing", TRUE))

\* POST /translate/force (an unselected window answers 400 and changes nothing)
force_translation ==
    /\ server = "app"
    /\ selected_hwnd # NoHwnd
    /\ one_time_translation_task(next_id, "force", 0)
    /\ source_changed' = FALSE
    /\ reset_pending' = FALSE
    /\ UNCHANGED <<server, gui, compared, wire, settings, selected_hwnd, monitoring_paused, cache, appFlags, apiFlags,
                   loops, published, results>>
    /\ NotACycle
    /\ Call("force_translation", FALSE)

\* C6 mutant: a stop that sets the cancel flag and leaves the task state alone
stop_task_keeps_state ==
    /\ server = "app"
    /\ translation_task_cancel' = TRUE
    /\ tasks' = [t \in TaskIds |->
                    IF Running(t) THEN [tasks[t] EXCEPT !.stopped = TRUE] ELSE tasks[t]]
    /\ UNCHANGED <<server, gui, compared, wire, settings, selected_hwnd, monitoring_paused, cache, task_state,
                   translation_task_running, apiFlags, loops, next_id, sink, results,
                   flags>>
    /\ NotACycle
    /\ Call("stop_task", TRUE)

\* POST /task/stop
stop_task ==
    /\ server = "app"
    /\ translation_task_cancel' = TRUE
    /\ task_state' = [is_running |-> FALSE]
    /\ tasks' = [t \in TaskIds |->
                    IF Running(t) THEN [tasks[t] EXCEPT !.stopped = TRUE] ELSE tasks[t]]
    /\ UNCHANGED <<server, gui, compared, wire, settings, selected_hwnd, monitoring_paused, cache,
                   translation_task_running, apiFlags, loops, next_id, sink, results,
                   flags>>
    /\ NotACycle
    /\ Call("stop_task", TRUE)

\* C33 mutant: a tail of one_time_translation_task without the reset of the
\* task state
TaskReturns_keeps_running(t, pc, q) ==
    /\ tasks' = [tasks EXCEPT ![t] = Retired(@, pc)]
    /\ ready' = q
    /\ results' = <<t>> \o results
    /\ task_state' = task_state
    /\ loops' = IF tasks[t].owner # 0
                THEN [loops EXCEPT ![tasks[t].owner] = [@ EXCEPT !.pc = "sleep",
                                                                 !.task = 0]]
                ELSE loops

\* the tail of one_time_translation_task: the result is put at the head of the
\* results, the task state is reset and the awaiting monitor loop goes to sleep
TaskReturns(t, pc, q) ==
    /\ tasks' = [tasks EXCEPT ![t] = Retired(@, pc)]
    /\ ready' = q
    /\ results' = <<t>> \o results
    /\ task_state' = [is_running |-> FALSE]
    /\ loops' = IF tasks[t].owner # 0
                THEN [loops EXCEPT ![tasks[t].owner] = [@ EXCEPT !.pc = "sleep",
                                                                 !.task = 0]]
                ELSE loops

\* update_task_timer, the ticker that one_time_translation_task creates for its
\* task (timer) and cancels in its finally block: at each tick it leaves its
\* while loop when the shared task state is not running, else it puts a
\* task_progress message on ws_message_queue (ticks, history: its puts so far)
update_task_timer(t) ==
    /\ server = "app"
    /\ tasks[t].timer
    /\ IF task_state.is_running
       THEN /\ next_event <= MaxEvents
            /\ ws_message_queue' = Append(ws_message_queue, next_event)
            /\ next_event' = next_event + 1
            /\ tasks' = [tasks EXCEPT ![t] = [@ EXCEPT !.ticks = @ + 1]]
       ELSE /\ tasks' = [tasks EXCEPT ![t] = [@ EXCEPT !.timer = FALSE]]
            /\ UNCHANGED <<ws_message_queue, next_event>>
    /\ UNCHANGED <<server, gui, compared, settings, selected_hwnd, monitoring_paused, task_state, cache, appFlags,
                   apiFlags, loops, next_id, sink, results, flags,
                   active_connections, casts, received>>
    /\ NotACycle
    /\ NotACall

\* app/utils/window.py screenshot_window: the bitmap of the window, or the blank
\* image when anything in the capture raised (shot = NoImage)
screenshot_window(shot) == IF shot = NoImage THEN Blank ELSE shot

\* worker thread: screenshot_window returns
screenshot_returns(t, shot) ==
    /\ server = "app"
    /\ tasks[t].pc = "capturing" /\ ~tasks[t].returned
    /\ tasks' = [tasks EXCEPT ![t] = [@ EXCEPT !.returned = TRUE]]
    /\ ready' = Post(ready, Wake(t, "capturing", "ok", screenshot_window(shot)))
    /\ UNCHANGED <<server, gui, compared, wire, settings, selected_hwnd, monitoring_paused, task_state, cache, appFlags,
                   apiFlags, loops, next_id, published, results, flags>>
    /\ NotACycle
    /\ NotACall

\* OCR progress thread (update_progress): posts stream_callback(progress_result)
\* to the loop until the coroutine has set stop_event
update_progress(t) ==
    /\ server = "app"
    /\ tasks[t].pc = "ocr" /\ tasks[t].posts < MaxProgress
    /\ tasks' = [tasks EXCEPT ![t] = [@ EXCEPT !.posts = @ + 1]]
    /\ ready' = Post(ready, Handle("cb", Event(t, "ocr", TRUE), "", NoImage))
    /\ UNCHANGED <<server, gui, compared, wire, settings, selected_hwnd, monitoring_paused, task_state, cache, appFlags,
                   apiFlags, loops, next_id, published, results, flags>>
    /\ NotACycle
    /\ NotACall

\* worker thread: ocr_provider.extract_text returns the text, or "" (nothing
\* found, or the backend failed)
extract_text_returns(t, res) ==
    /\ server = "app"
    /\ tasks[t].pc = "ocr" /\ ~tasks[t].returned
    /\ tasks' = [tasks EXCEPT ![t] = [@ EXCEPT !.returned = TRUE]]
    /\ ready' = Post(ready, Wake(t, "ocr", res, NoImage))
    /\ UNCHANGED <<server, gui, compared, wire, settings, selected_hwnd, monitoring_paused, task_state, cache, appFlags,
                   apiFlags, loops, next_id, published, results, flags>>
    /\ NotACycle
    /\ NotACall

\* worker thread: translate_text passes a partial translation to
\* safe_translation_callback, which posts stream_callback(progress_result)
safe_translation_callback(t) ==
    /\ server = "app"
    /\ tasks[t].pc = "translating" /\ ~tasks[t].returned
    /\ tasks[t].posts < MaxProgress
    /\ tasks' = [tasks EXCEPT ![t] = [@ EXCEPT !.posts = @ + 1]]
    /\ ready' = Post(ready, Handle("cb", Event(t, "translating", TRUE), "", NoImage))
    /\ UNCHANGED <<server, gui, compared, wire, settings, selected_hwnd, monitoring_paused, task_state, cache, appFlags,
                   apiFlags, loops, next_id, published, results, flags>>
    /\ NotACycle
    /\ NotACall

\* worker thread: translate_text returns the translation, or, when the request
\* to the backend raised (stream_translation yields ""), what it had so far
translate_text_returns(t, res) ==
    /\ server = "app"
    /\ tasks[t].pc = "translating" /\ ~tasks[t].returned
    /\ tasks' = [tasks EXCEPT ![t] = [@ EXCEPT !.returned = TRUE]]
    /\ ready' = Post(ready, Wake(t, "translating", res, NoImage))
    /\ UNCHANGED <<server, gui, compared, wire, settings, selected_hwnd, monitoring_paused, task_state, cache, appFlags,
                   apiFlags, loops, next_id, published, results, flags>>
    /\ NotACycle
    /\ NotACall

(* ------------------------------------------------------ app: event loop *)
\* the loop runs a handle posted by a worker thread: stream_callback(result)
run_stream_callback(t) ==
    /\ server = "app"
    /\ AtHead(t, "cb")
    /\ ready' = stream_translation_callback(Pop(ready, t), Head(ready[t]).ev)
    /\ UNCHANGED <<server, gui, compared, wire, settings, selected_hwnd, monitoring_paused, task_state, cache, appFlags,
                   apiFlags, loops, tasks, next_id, published, results, flags>>
    /\ NotACycle
    /\ NotACall

\* the loop runs queue_translation_result: the result is put on ws_message_queue.
\* process_ws_messages is the queue's only consumer and broadcasts in queue order,
\* so the puts of one task id, in order, are what a connected client receives for
\* it. (The task_progress message put behind each result carries no task id.)
queue_translation_result(t) ==
    /\ server = "app"
    /\ AtHead(t, "enq")
    /\ ready' = Pop(ready, t)
    /\ published' = [published EXCEPT ![t] = Append(@, Head(ready[t]).ev)]
    /\ UNCHANGED <<server, gui, compared, wire, settings, selected_hwnd, monitoring_paused, task_state, cache, appFlags,
                   apiFlags, loops, tasks, next_id, results, flags>>
    /\ NotACycle
    /\ NotACall

\* translate_screen resumes after the screenshot: the ocr result is emitted and
\* the extraction is started on whatever image screenshot_window returned
translate_screen_captured(t) ==
    /\ server = "app"
    /\ AtHead(t, "wake") /\ tasks[t].pc = "capturing"
    /\ tasks' = [tasks EXCEPT ![t] = [@ EXCEPT !.pc = "ocr",
                         !.img = Head(ready[t]).img, !.returned = FALSE]]
    /\ ready' = stream_translation_callback(Pop(ready, t), Event(t, "ocr", TRUE))
    /\ UNCHANGED <<server, gui, compared, wire, settings, selected_hwnd, monitoring_paused, task_state, cache,
                   appFlags, apiFlags, loops, next_id, published, results, flags>>
    /\ NotACycle
    /\ NotACall

\* translate_screen resumes after the OCR: stop_event is set, and either the
\* no-text result ends the task or the translating stage starts
translate_screen_extracted(t) ==
    /\ server = "app"
    /\ AtHead(t, "wake") /\ tasks[t].pc = "ocr"
    /\ IF Head(ready[t]).res = "text"
       THEN /\ tasks' = [tasks EXCEPT ![t] = [@ EXCEPT !.pc = "translating",
                                                    !.posts = 0, !.returned = FALSE]]
            /\ ready' = stream_translation_callback(Pop(ready, t),
                                                    Event(t, "translating", TRUE))
            /\ UNCHANGED <<task_state, loops, results>>
       ELSE TaskReturns(t, "error", stream_translation_callback(Pop(ready, t),
                                        Event(t, "error", FALSE)))
    /\ UNCHANGED <<server, gui, compared, wire, settings, selected_hwnd, monitoring_paused, cache, appFlags, apiFlags,
                   next_id, published, flags>>
    /\ NotACycle
    /\ NotACall

\* translate_screen resumes after the translation: the completed result is
\* emitted (with the text "Translation failed" when translate_text returned
\* nothing) and the screenshot is cached
translate_screen_translated(t) ==
    /\ server = "app"
    /\ AtHead(t, "wake") /\ tasks[t].pc = "translating"
    /\ TaskReturns(t, "completed", stream_translation_callback(Pop(ready, t),
                                       Event(t, "completed", FALSE)))
    /\ last_image' = tasks[t].img
    /\ last_hwnd' = tasks[t].hwnd
    /\ UNCHANGED <<server, gui, compared, wire, settings, selected_hwnd, monitoring_paused, appFlags, apiFlags,
                   next_id, published, flags>>
    /\ NotACycle
    /\ NotACall

(* ----------------------------------------------------- app: monitor loop *)
FreeLoop == CHOOSE l \in LoopIds :
                loops[l].pc = "none" /\ \A m \in LoopIds : m < l => loops[m].pc # "none"

\* POST /monitor/control, action start
control_monitoring_start ==
    /\ server = "app"
    /\ monitoring_paused' = FALSE
    /\ IF ~translation_task_running
       THEN /\ \E l \in 1..MaxLoops : loops[l].pc = "none"
            /\ translation_task_cancel' = FALSE
            /\ loops' = [loops EXCEPT ![FreeLoop] = [@ EXCEPT !.pc = "scheduled"]]
       ELSE UNCHANGED <<translation_task_cancel, loops>>
    /\ UNCHANGED <<server, gui, compared, wire, settings, selected_hwnd, task_state, cache, translation_task_running,
                   apiFlags, tasks, next_id, sink, results, flags>>
    /\ NotACycle
    /\ Call("control_monitoring", TRUE)

\* POST /monitor/control, action pause
control_monitoring_pause ==
    /\ server = "app"
    /\ monitoring_paused' = TRUE
    /\ UNCHANGED <<server, gui, compared, wire, settings, selected_hwnd, task_state, cache, appFlags, apiFlags, loops,
                   tasks, next_id, sink, results, flags>>
    /\ NotACycle
    /\ Call("control_monitoring", TRUE)

\* POST /monitor/control, action stop
control_monitoring_stop ==
    /\ server = "app"
    /\ monitoring_paused' = TRUE
    /\ translation_task_cancel' = TRUE
    /\ tasks' = MarkHalted(tasks)
    /\ UNCHANGED <<server, gui, compared, wire, settings, selected_hwnd, task_state, cache, translation_task_running,
                   apiFlags, loops, next_id, sink, results, flags>>
    /\ NotACycle
    /\ Call("control_monitoring", TRUE)

\* the background task monitoring_task starts running
monitoring_task_begin(l) ==
    /\ server = "app"
    /\ loops[l].pc = "scheduled"
    /\ translation_task_running' = TRUE
    /\ loops' = [loops EXCEPT ![l] = [@ EXCEPT !.pc = "sleep"]]
    /\ UNCHANGED <<server, gui, compared, wire, settings, selected_hwnd, monitoring_paused, task_state, cache,
                   translation_task_cancel, apiFlags, tasks, next_id, sink, results,
                   flags>>
    /\ NotACycle
    /\ NotACall

\* monitoring_task leaves its while loop
monitoring_task_exit(l) ==
    /\ server = "app"
    /\ loops[l].pc = "sleep"
    /\ translation_task_cancel
    /\ translation_task_running' = FALSE
    /\ loops' = [loops EXCEPT ![l] = NoLoop]
    /\ UNCHANGED <<server, gui, compared, wire, settings, selected_hwnd, monitoring_paused, task_state, cache,
                   translation_task_cancel, apiFlags, tasks, next_id, sink, results,
                   flags>>
    /\ NotACycle
    /\ NotACall

\* history: what the similarity gate is asked in a cycle on hwnd: "similar" or
\* "different" when the cache holds a frame of hwnd and the capture succeeds,
\* "none" when the gate is not asked
GateAnswer(hwnd, visible, shot) ==
    IF last_image = NoImage \/ last_hwnd # hwnd \/ ~visible \/ shot = NoImage THEN "none"
    ELSE IF images_are_similar(shot, last_image,
                               settings.similarity_threshold) THEN "similar"
    ELSE "different"

\* history: the decision of a cycle that saw the source or processed a frame
CycleRecord(go, gate, visible) ==
    [outcome |-> IF go THEN "process" ELSE "skip", visible |-> visible,
     after_change |-> source_changed, after_reset |-> reset_pending, gate |-> gate]

\* one cycle of monitoring_task with a window selected and monitoring on (a
\* paused loop or one without a window only sleeps)
monitoring_task_cycle(l, visible, shot) ==
    /\ server = "app"
    /\ loops[l].pc = "sleep"
    /\ ~translation_task_cancel
    /\ ~monitoring_paused
    /\ selected_hwnd # NoHwnd
    /\ LET go == should_process_new_image(selected_hwnd,
                                          settings.similarity_threshold,
                                          visible, screenshot_window(shot))
       IN  /\ IF go
              THEN /\ one_time_translation_task(next_id, "monitor", l)
                   /\ loops' = [loops EXCEPT ![l] = [@ EXCEPT !.pc = "task",
                                                             !.task = next_id]]
              ELSE UNCHANGED <<tasks, next_id, task_state, ready, loops>>
           /\ IF go \/ visible
              THEN /\ last_cycle' = CycleRecord(go,
                                        GateAnswer(selected_hwnd, visible,
                                                   screenshot_window(shot)),
                                        visible)
                   /\ source_changed' = FALSE
                   /\ reset_pending' = FALSE
              ELSE /\ last_cycle' = NoCycle
                   /\ UNCHANGED flags
    /\ UNCHANGED <<server, gui, compared, wire, settings, selected_hwnd, monitoring_paused, cache, appFlags, apiFlags,
                   published, results>>
    /\ NotACall

(* ------------------------------------------------- api: TranslationService *)
\* history: a stop call reached these tasks while _start_translation_task was
\* executing them
MarkStopped(ts) ==
    [t \in TaskIds |-> IF ts[t].pc \in {"translating", "logging"}
                       THEN [ts[t] EXCEPT !.stopped = TRUE]
                       ELSE ts[t]]

\* history: a cycle in flight is not one that began after this select or reset
Overtaken(ls) == [l \in LoopIds |-> [ls[l] EXCEPT !.chg = FALSE, !.rst = FALSE]]

\* TranslationService.select_window
Service_select_window(h) ==
    /\ server = "api"
    /\ selected_hwnd' = h
    /\ IF last_hwnd # h
       THEN last_image' = NoImage /\ last_hwnd' = h
       ELSE UNCHANGED cache
    /\ source_changed' = SourceChanged(h)
    /\ loops' = Overtaken(loops)
    /\ UNCHANGED <<server, gui, compared, wire, settings, monitoring_paused, task_state, appFlags, apiFlags, tasks,
                   next_id, sink, results, reset_pending>>
    /\ NotACycle
    /\ Call("select_window", TRUE)

\* TranslationService.reset_cache
Service_reset_cache ==
    /\ server = "api"
    /\ last_image' = NoImage
    /\ last_hwnd' = NoHwnd
    /\ reset_pending' = TRUE
    /\ loops' = Overtaken(loops)
    /\ UNCHANGED <<server, gui, compared, wire, settings, selected_hwnd, monitoring_paused, task_state, appFlags,
                   apiFlags, tasks, next_id, sink, results, source_changed>>
    /\ NotACycle
    /\ Call("reset_cache", FALSE)

\* TranslationService.start_monitoring: a new _monitor_loop task is created
Service_start_monitoring_n(n) ==
    /\ server = "api"
    /\ selected_hwnd # NoHwnd
    /\ \E l \in 1..n : loops[l].pc = "none"
    /\ monitoring_paused' = FALSE
    /\ pipeline_running' = TRUE
    /\ stop_event' = FALSE
    /\ loops' = [loops EXCEPT ![FreeLoop] = [@ EXCEPT !.pc = "sleep"]]
    /\ monitor_task' = FreeLoop
    /\ UNCHANGED <<server, gui, compared, wire, settings, selected_hwnd, task_state, cache, appFlags, tasks, next_id,
                   sink, results, flags>>
    /\ NotACycle
    /\ Call("control_monitoring", TRUE)

\* POST /api/monitor/control, action start, from a client that has one loop at
\* a time
Service_start_monitoring == Service_start_monitoring_n(MaxLoops)

\* monitor_task.cancel(): CancelledError is raised where the loop is suspended; in
\* _start_translation_task it runs the finally block and no result is stored
CancelsTask == monitor_task # 0 /\ loops[monitor_task].pc = "task"
CancelledLoops == IF monitor_task # 0 THEN [loops EXCEPT ![monitor_task] = NoLoop]
                  ELSE loops
CancelledTasks(ts) ==
    IF CancelsTask
    THEN [ts EXCEPT ![loops[monitor_task].task] = Retired(@, "cancelled")]
    ELSE ts

\* TranslationService.pause_monitoring
Service_pause_monitoring ==
    /\ server = "api"
    /\ monitoring_paused' = TRUE
    /\ pipeline_running' = FALSE
    /\ stop_event' = TRUE
    /\ loops' = CancelledLoops
    /\ tasks' = CancelledTasks(tasks)
    /\ task_state' = IF CancelsTask THEN [is_running |-> FALSE] ELSE task_state
    /\ UNCHANGED <<server, gui, compared, wire, settings, selected_hwnd, cache, appFlags, monitor_task, next_id, sink,
                   results, flags>>
    /\ NotACycle
    /\ Call("control_monitoring", TRUE)

\* TranslationService.stop_current_task: current_future is never assigned, so
\* nothing is cancelled; the task state is replaced
Service_stop_current_task ==
    /\ server = "api"
    /\ task_state' = [is_running |-> FALSE]
    /\ tasks' = MarkStopped(tasks)
    /\ UNCHANGED <<server, gui, compared, wire, settings, selected_hwnd, monitoring_paused, cache, appFlags, apiFlags,
                   loops, next_id, sink, results, flags>>
    /\ NotACycle
    /\ Call("stop_task", TRUE)

\* TranslationService.stop_monitoring: pause_monitoring, then stop_current_task
Service_stop_monitoring ==
    /\ server = "api"
    /\ monitoring_paused' = TRUE
    /\ pipeline_running' = FALSE
    /\ stop_event' = TRUE
    /\ loops' = CancelledLoops
    /\ tasks' = CancelledTasks(MarkHalted(MarkStopped(tasks)))
    /\ task_state' = [is_running |-> FALSE]
    /\ UNCHANGED <<server, gui, compared, wire, settings, selected_hwnd, cache, appFlags, monitor_task, next_id, sink,
                   results, flags>>
    /\ NotACycle
    /\ Call("control_monitoring", TRUE)

\* the tail of _start_translation_task (finally): the task state is reset and
\* the awaiting monitor loop goes to sleep
Service_task_ends(t, pc) ==
    /\ tasks' = [tasks EXCEPT ![t] = Retired(@, pc)]
    /\ task_state' = [is_running |-> FALSE]
    /\ loops' = IF tasks[t].owner # 0
                THEN [loops EXCEPT ![tasks[t].owner] = [@ EXCEPT !.pc = "sleep",
                                                                 !.task = 0]]
                ELSE loops

\* TranslationService.force_translation up to its first suspension: a running
\* task is "stopped" and the handler sleeps 0.1 s, else the screenshot is taken
Service_force_translation ==
    /\ server = "api"
    /\ selected_hwnd # NoHwnd
    /\ next_id <= MaxTasks
    /\ LET old == IF task_state.is_running THEN MarkStopped(tasks) ELSE tasks
       IN  tasks' = [old EXCEPT ![next_id] = [NoTask EXCEPT
                         !.pc = IF task_state.is_running THEN "grace" ELSE "capturing",
                         !.trigger = "force"]]
    /\ next_id' = next_id + 1
    /\ task_state' = [is_running |-> FALSE]
    /\ loops' = Overtaken(loops)
    /\ source_changed' = FALSE
    /\ reset_pending' = FALSE
    /\ UNCHANGED <<server, gui, compared, wire, settings, selected_hwnd, monitoring_paused, cache, appFlags, apiFlags,
                   sink, results>>
    /\ NotACycle
    /\ Call("force_translation", task_state.is_running)

\* force_translation after asyncio.sleep(0.1): the screenshot is requested (what
\* the capture shows is chosen when it returns)
Service_force_resumes(t) ==
    /\ server = "api"
    /\ tasks[t].pc = "grace"
    /\ tasks' = [tasks EXCEPT ![t] = [@ EXCEPT !.pc = "capturing"]]
    /\ UNCHANGED <<server, gui, compared, wire, settings, selected_hwnd, monitoring_paused, task_state, cache, appFlags,
                   apiFlags, loops, next_id, sink, results, flags>>
    /\ NotACycle
    /\ NotACall

\* force_translation after the screenshot: the frame is cached under the source
\* selected now and _start_translation_task runs to its first suspension
Service_force_captured(t, shot) ==
    /\ server = "api"
    /\ tasks[t].pc = "capturing"
    /\ IF shot = NoImage
       THEN /\ tasks' = [tasks EXCEPT ![t] = Retired(@, "error")]
            /\ UNCHANGED <<cache, task_state>>
       ELSE /\ last_image' = shot
            /\ last_hwnd' = selected_hwnd
            /\ task_state' = [is_running |-> TRUE]
            /\ tasks' = [tasks EXCEPT ![t] = [@ EXCEPT !.pc = "translating",
                                                    !.timeout0 = settings.timeout,
                                                    !.screenshot = shot]]
    /\ UNCHANGED <<server, gui, compared, wire, settings, selected_hwnd, monitoring_paused, appFlags, apiFlags, loops,
                   next_id, sink, results, flags>>
    /\ NotACycle
    /\ NotACall

\* _start_translation_task after translator.encode_image: settings.timeout is
\* read and translator.translate_screen is called with it
Service_encode_image_returns(t) ==
    /\ server = "api"
    /\ tasks[t].pc = "translating" /\ tasks[t].timeout = 0
    /\ tasks' = [tasks EXCEPT ![t] = [@ EXCEPT !.timeout = settings.timeout]]
    /\ UNCHANGED <<server, gui, compared, wire, settings, selected_hwnd, monitoring_paused, task_state, cache,
                   appFlags, apiFlags, loops, next_id, sink, results, flags>>
    /\ NotACycle
    /\ NotACall

\* _start_translation_task after translator.translate_screen: a translation is
\* stored and broadcast and the log call is awaited; None or an exception ends
\* the task without a result
Service_translate_screen_returns(t, res) ==
    /\ server = "api"
    /\ tasks[t].pc = "translating" /\ tasks[t].timeout # 0
    /\ IF res = "text"
       THEN /\ tasks' = [tasks EXCEPT ![t] = [@ EXCEPT !.pc = "logging"]]
            /\ results' = Append(results, t)
            /\ published' = [published EXCEPT ![t] =
                                 Append(@, Event(t, "completed", FALSE))]
            /\ UNCHANGED <<task_state, loops>>
       ELSE /\ Service_task_ends(t, IF res = "empty" THEN "empty" ELSE "error")
            /\ UNCHANGED <<results, published>>
    /\ UNCHANGED <<server, gui, compared, wire, settings, selected_hwnd, monitoring_paused, cache, appFlags, apiFlags,
                   next_id, ready, flags>>
    /\ NotACycle
    /\ NotACall

\* _start_translation_task after translator.log_translation
Service_log_translation_returns(t) ==
    /\ server = "api"
    /\ tasks[t].pc = "logging"
    /\ Service_task_ends(t, "completed")
    /\ UNCHANGED <<server, gui, compared, wire, settings, selected_hwnd, monitoring_paused, cache, appFlags, apiFlags,
                   next_id, sink, results, flags>>
    /\ NotACycle
    /\ NotACall

(* ------------------------------------------------- api: _monitor_loop *)
\* the head of the while loop after a sleep: the loop ends, sleeps again (no
\* window, or not visible) or requests the screenshot of the selected window
Service_monitor_loop_wakes(l, visible) ==
    /\ server = "api"
    /\ loops[l].pc = "sleep"
    /\ IF ~(pipeline_running /\ ~stop_event)
       THEN loops' = [loops EXCEPT ![l] = NoLoop] /\ UNCHANGED flags
       ELSE IF selected_hwnd = NoHwnd \/ ~visible
       THEN UNCHANGED <<loops, flags>>
       ELSE /\ loops' = [loops EXCEPT ![l] = [@ EXCEPT !.pc = "shot",
                             !.chg = source_changed, !.rst = reset_pending]]
            /\ source_changed' = FALSE
            /\ reset_pending' = FALSE
    /\ UNCHANGED <<server, gui, compared, wire, settings, selected_hwnd, monitoring_paused, task_state, cache, appFlags,
                   apiFlags, tasks, next_id, sink, results>>
    /\ NotACycle
    /\ NotACall

\* history: the decision of the cycle of loop l
Service_cycle(l, go) == [outcome |-> IF go THEN "process" ELSE "skip",
                         visible |-> TRUE,
                         after_change |-> loops[l].chg, after_reset |-> loops[l].rst,
                         gate |-> IF loops[l].pc # "compare" THEN "none"
                                  ELSE IF loops[l].sim THEN "similar" ELSE "different"]

\* the frame is cached under the source selected now, and a task is started
\* unless one is running (history: a processed frame settles a pending change)
Service_process(l, shot) ==
    /\ last_image' = shot
    /\ last_hwnd' = selected_hwnd
    /\ last_cycle' = Service_cycle(l, TRUE)
    /\ source_changed' = FALSE
    /\ reset_pending' = FALSE
    /\ IF ~task_state.is_running
       THEN /\ next_id <= MaxTasks
            /\ tasks' = [tasks EXCEPT ![next_id] = [NoTask EXCEPT
                             !.pc = "translating", !.trigger = "monitor",
                             !.owner = l, !.timeout0 = settings.timeout,
                             !.screenshot = shot]]
            /\ next_id' = next_id + 1
            /\ task_state' = [is_running |-> TRUE]
            /\ loops' = [loops EXCEPT ![l] = [NoLoop EXCEPT !.pc = "task",
                                                            !.task = next_id]]
       ELSE /\ loops' = [loops EXCEPT ![l] = [NoLoop EXCEPT !.pc = "sleep"]]
            /\ UNCHANGED <<tasks, next_id, task_state>>

\* _monitor_loop after the screenshot: an exception ends the loop; with a cached
\* frame of the selected source the comparison is requested
Service_monitor_loop_captured(l, shot) ==
    /\ server = "api"
    /\ loops[l].pc = "shot"
    /\ IF shot = NoImage
       THEN /\ loops' = [loops EXCEPT ![l] = NoLoop]
            /\ NotACycle
            /\ UNCHANGED <<cache, tasks, next_id, task_state, flags>>
       ELSE IF last_image # NoImage /\ last_hwnd = selected_hwnd
       THEN /\ loops' = [loops EXCEPT ![l] = [@ EXCEPT !.pc = "compare", !.img = shot,
                             !.sim = images_are_similar(shot, last_image,
                                            settings.similarity_threshold)]]
            /\ NotACycle
            /\ UNCHANGED <<cache, tasks, next_id, task_state, flags>>
       ELSE Service_process(l, shot)
    /\ UNCHANGED <<server, gui, compared, wire, settings, selected_hwnd, monitoring_paused, appFlags, apiFlags, sink,
                   results>>
    /\ NotACall

\* _monitor_loop after images_are_similar: an exception of the comparison (it
\* has no handler of its own) ends the loop like one of the screenshot
Service_monitor_loop_compared(l, raised) ==
    /\ server = "api"
    /\ loops[l].pc = "compare"
    /\ IF raised
       THEN /\ loops' = [loops EXCEPT ![l] = NoLoop]
            /\ NotACycle
            /\ UNCHANGED <<cache, tasks, next_id, task_state, flags>>
       ELSE IF loops[l].sim
       THEN /\ loops' = [loops EXCEPT ![l] = [NoLoop EXCEPT !.pc = "sleep"]]
            /\ last_cycle' = Service_cycle(l, FALSE)
            /\ UNCHANGED <<cache, tasks, next_id, task_state, flags>>
       ELSE Service_process(l, loops[l].img)
    /\ UNCHANGED <<server, gui, compared, wire, settings, selected_hwnd, monitoring_paused, appFlags, apiFlags, sink,
                   results>>
    /\ NotACall

(* ------------------------------------------------- websocket fan-out *)
Elems(q) == {q[i] : i \in 1..Len(q)}
\* list.remove(x) for each x of a set, on a list without duplicates
Without(q, xs) == SelectSeq(q, LAMBDA x : x \notin xs)
\* history: clients removed from the list have not stayed for the whole call
Left(cs, xs) == [c \in Casters |-> [cs[c] EXCEPT !.stay = @ \ xs]]

\* ConnectionManager.connect / TranslationService.add_connection
connect(s) ==
    /\ s \notin Elems(active_connections)
    /\ active_connections' = Append(active_connections, s)
    /\ UNCHANGED <<server, gui, compared, settings, selected_hwnd, monitoring_paused, task_state, cache, appFlags,
                   apiFlags, loops, tasks, next_id, sink, results, flags, casts,
                   ws_message_queue, received, next_event>>
    /\ NotACycle
    /\ NotACall

\* ConnectionManager.disconnect / remove_connection, called by the websocket
\* endpoint on WebSocketDisconnect
disconnect(s) ==
    /\ s \in Elems(active_connections)
    /\ active_connections' = Without(active_connections, {s})
    /\ casts' = Left(casts, {s})
    /\ UNCHANGED <<server, gui, compared, settings, selected_hwnd, monitoring_paused, task_state, cache, appFlags,
                   apiFlags, loops, tasks, next_id, sink, results, flags,
                   ws_message_queue, received, next_event>>
    /\ NotACycle
    /\ NotACall

\* ConnectionManager.broadcast up to its first send: without connections it
\* returns at once, else the for loop starts at the head of the list
broadcast(cs, c, m) ==
    IF active_connections = <<>> THEN cs
    ELSE [cs EXCEPT ![c] = [pc |-> "sending", msg |-> m, idx |-> 1, failed |-> {},
                            stay |-> Elems(active_connections), got |-> {}]]

\* queue_translation_result / queue_task_progress: a message is put on
\* ws_message_queue
ws_message_queue_put ==
    /\ server = "app"
    /\ next_event <= MaxEvents
    /\ ws_message_queue' = Append(ws_message_queue, next_event)
    /\ next_event' = next_event + 1
    /\ UNCHANGED <<server, gui, compared, settings, selected_hwnd, monitoring_paused, task_state, cache, appFlags,
                   apiFlags, loops, tasks, next_id, sink, results, flags,
                   active_connections, casts, received>>
    /\ NotACycle
    /\ NotACall

\* process_ws_messages: the next message is taken from the queue and broadcast
process_ws_messages ==
    /\ server = "app"
    /\ casts["processor"].pc = "idle"
    /\ ws_message_queue # <<>>
    /\ ws_message_queue' = Tail(ws_message_queue)
    /\ casts' = broadcast(casts, "processor", Head(ws_message_queue))
    /\ UNCHANGED <<server, gui, compared, settings, selected_hwnd, monitoring_paused, task_state, cache, appFlags,
                   apiFlags, loops, tasks, next_id, sink, results, flags,
                   active_connections, received, next_event>>
    /\ NotACycle
    /\ NotACall

\* broadcast_status / broadcast_task_progress called directly by a task or an
\* endpoint (api: broadcast_status, broadcast_translation)
broadcast_status ==
    /\ casts["direct"].pc = "idle"
    /\ next_event <= MaxEvents
    /\ next_event' = next_event + 1
    /\ casts' = broadcast(casts, "direct", next_event)
    /\ UNCHANGED <<server, gui, compared, settings, selected_hwnd, monitoring_paused, task_state, cache, appFlags,
                   apiFlags, loops, tasks, next_id, sink, results, flags,
                   active_connections, ws_message_queue, received>>
    /\ NotACycle
    /\ NotACall

\* one iteration of the for loop in broadcast: the list iterator yields the
\* element at its position in the list as it is now, and the send succeeds or
\* raises
broadcast_send(c, ok) ==
    /\ casts[c].pc = "sending"
    /\ casts[c].idx <= Len(active_connections)
    /\ LET conn == active_connections[casts[c].idx]
       IN  IF ok
           THEN /\ received' = [received EXCEPT ![conn] = Append(@, casts[c].msg)]
                /\ casts' = [casts EXCEPT ![c] = [@ EXCEPT !.idx = @ + 1,
                                                          !.got = @ \cup {conn}]]
           ELSE /\ casts' = [casts EXCEPT ![c] = [@ EXCEPT !.idx = @ + 1,
                                 !.failed = @ \cup {conn}, !.stay = @ \ {conn}]]
                /\ UNCHANGED received
    /\ UNCHANGED <<server, gui, compared, settings, selected_hwnd, monitoring_paused, task_state, cache, appFlags,
                   apiFlags, loops, tasks, next_id, sink, results, flags,
                   active_connections, ws_message_queue, next_event>>
    /\ NotACycle
    /\ NotACall

\* the end of broadcast: the iterator is exhausted and the clients whose send
\* raised are removed from the list
broadcast_cleanup(c) ==
    /\ casts[c].pc = "sending"
    /\ casts[c].idx > Len(active_connections)
    /\ active_connections' = Without(active_connections, casts[c].failed)
    /\ casts' = [Left(casts, casts[c].failed) EXCEPT ![c] = NoCast]
    /\ UNCHANGED <<server, gui, compared, settings, selected_hwnd, monitoring_paused, task_state, cache, appFlags,
                   apiFlags, loops, tasks, next_id, sink, results, flags,
                   ws_message_queue, received, next_event>>
    /\ NotACycle
    /\ NotACall

(* ------------------------------------------------ settings and results *)
\* PATCH /settings: the fields a SettingsUpdateRequest carries (given, as
\* model_dump(exclude_unset=True) sees them) and their values; the threshold is in
\* percent
SettingKeys == {"check_interval", "similarity_threshold", "timeout"}
SettingsUpdateRequest ==
    [given : SUBSET SettingKeys, check_interval : {0, 5},
     similarity_threshold : {95, 120}, timeout : {0, 60}]

\* the settings after the given fields are assigned
Patched(st, req) == [k \in SettingKeys |-> IF k \in req.given THEN req[k] ELSE st[k]]

\* src/models.py SettingsUpdateRequest: the Field bounds of the api server, a
\* request outside them is answered 422 before the handler runs
Validated(req) ==
    /\ "check_interval" \in req.given => req.check_interval \in 1..10
    /\ "similarity_threshold" \in req.given => req.similarity_threshold \in 50..100
    /\ "timeout" \in req.given => req.timeout \in 10..120

\* app: PATCH /settings; its request model declares no bounds
update_settings(req) ==
    /\ server = "app"
    /\ settings' = Patched(settings, req)
    /\ UNCHANGED <<server, gui, compared, wire, selected_hwnd, monitoring_paused, task_state, cache,
                   appFlags, apiFlags, loops, tasks, next_id, sink, results, flags>>
    /\ NotACycle
    /\ Call("update_settings", FALSE)

\* api: PATCH /api/settings
Service_update_settings(req) ==
    /\ server = "api"
    /\ Validated(req)
    /\ settings' = Patched(settings, req)
    /\ UNCHANGED <<server, gui, compared, wire, selected_hwnd, monitoring_paused, task_state, cache,
                   appFlags, apiFlags, loops, tasks, next_id, sink, results, flags>>
    /\ NotACycle
    /\ Call("update_settings", TRUE)

\* app: DELETE /results
clear_results ==
    /\ server = "app"
    /\ results' = <<>>
    /\ UNCHANGED <<server, gui, compared, wire, settings, selected_hwnd, monitoring_paused, task_state,
                   cache, appFlags, apiFlags, loops, tasks, next_id, sink, flags>>
    /\ NotACycle
    /\ Call("clear_results", FALSE)

\* api: DELETE /api/results
Service_clear_results ==
    /\ server = "api"
    /\ results' = <<>>
    /\ UNCHANGED <<server, gui, compared, wire, settings, selected_hwnd, monitoring_paused, task_state,
                   cache, appFlags, apiFlags, loops, tasks, next_id, sink, flags>>
    /\ NotACycle
    /\ Call("clear_results", TRUE)

\* app: DELETE /results/{result_id}; an unknown id answers 404
delete_result(t) ==
    /\ server = "app"
    /\ t \in Elems(results)
    /\ results' = Without(results, {t})
    /\ UNCHANGED <<server, gui, compared, wire, settings, selected_hwnd, monitoring_paused, task_state,
                   cache, appFlags, apiFlags, loops, tasks, next_id, sink, flags>>
    /\ NotACycle
    /\ Call("delete_result", FALSE)

\* api: DELETE /api/results/{result_id}
Service_delete_result(t) ==
    /\ server = "api"
    /\ results' = Without(results, {t})
    /\ UNCHANGED <<server, gui, compared, wire, settings, selected_hwnd, monitoring_paused, task_state,
                   cache, appFlags, apiFlags, loops, tasks, next_id, sink, flags>>
    /\ NotACycle
    /\ Call("delete_result", TRUE)

(* ------------------------------------------------------- gui.py: OCRApp *)
\* what no step of OCRApp changes: the state of the two servers
servers == <<server, selected_hwnd, monitoring_paused, task_state, cache, appFlags,
             apiFlags, loops, tasks, next_id, sink, results, flags, wire, settings,
             compared>>

\* a step of OCRApp taken by thread by
OCRApp_step(by, app) ==
    /\ server = "gui"
    /\ gui' = [app EXCEPT !.by = by]
    /\ UNCHANGED servers
    /\ NotACycle
    /\ NotACall

\* UI thread: select_hwnd from the program menu
OCRApp_select_hwnd(h) ==
    /\ h # NoHwnd
    /\ OCRApp_step("ui", [gui EXCEPT !.selected_hwnd = h])

\* UI thread: update_timers, every 200 ms: while the OCR timer flag is set the
\* elapsed time is advanced (in ticks, capped by MaxEvents)
OCRApp_update_timers ==
    /\ gui.ocr_timer_active
    /\ gui.ocr_time < MaxEvents
    /\ OCRApp_step("ui", [gui EXCEPT !.ocr_time = @ + 1])

\* UI thread: toggle_pipeline. Running: stop_ocr and stop_translation set the
\* events and clear the timer flags. Not running: without a window a warning is
\* shown, else the events are cleared and a thread running ocr_loop is started
\* (the model holds one ocr_loop thread at a time)
OCRApp_toggle_pipeline ==
    IF gui.running
    THEN OCRApp_step("ui", [gui EXCEPT !.stop_ocr_event = TRUE,
                                       !.ocr_timer_active = FALSE,
                                       !.stop_translation_event = TRUE,
                                       !.translation_timer_active = FALSE,
                                       !.running = FALSE])
    ELSE /\ gui.selected_hwnd # NoHwnd
         /\ gui.ocr = "none"
         /\ OCRApp_step("ui", [gui EXCEPT !.stop_ocr_event = FALSE,
                                          !.stop_translation_event = FALSE,
                                          !.ocr = "sleep", !.running = TRUE])

\* ocr_loop thread, the except branch: the timer flag is cleared and
\* messagebox.showerror is called
OCRApp_ocr_error(app) ==
    [app EXCEPT !.ocr_timer_active = FALSE, !.errors = @ + 1, !.ocr = "sleep"]

\* ocr_loop thread at the head of its while loop: it ends when the stop event is
\* set and sleeps when the window is not visible; else it takes the screenshot
\* (shot = NoImage: mss raises), sleeps when the cached frame is similar, else
\* caches the frame, sets the timer flag and calls the OCR backend
OCRApp_ocr_loop(visible, shot) ==
    /\ gui.ocr = "sleep"
    /\ gui.errors < MaxEvents
    /\ OCRApp_step("ocr_loop",
           IF gui.stop_ocr_event THEN [gui EXCEPT !.ocr = "none"]
           ELSE IF gui.selected_hwnd = NoHwnd \/ ~visible THEN gui
           ELSE IF shot = NoImage THEN OCRApp_ocr_error(gui)
           ELSE IF gui.last_image # NoImage
                   /\ images_are_similar(shot, gui.last_image, similarity_threshold)
                THEN gui
           ELSE [gui EXCEPT !.last_image = shot, !.ocr_timer_active = TRUE,
                            !.ocr_time = 0, !.ocr = "call"])

\* ocr_loop thread in ocr.ocr_image_with_vllm(img_b64, timeout=...): the function
\* of ocr.py takes no timeout, so the call raises TypeError and the except
\* branch runs
OCRApp_ocr_image_raises ==
    /\ gui.ocr = "call"
    /\ OCRApp_step("ocr_loop", OCRApp_ocr_error(gui))

(* --------------------------------------------------------- specification *)
\* worker threads and event loop turns of the app's translation tasks
TaskSteps(shots, outs) ==
    \/ \E t \in TaskIds, shot \in shots : screenshot_returns(t, shot)
    \/ \E t \in TaskIds : update_progress(t)
    \/ \E t \in TaskIds, res \in {"text", "empty"} : extract_text_returns(t, res)
    \/ \E t \in TaskIds : safe_translation_callback(t)
    \/ \E t \in TaskIds, res \in outs : translate_text_returns(t, res)
    \/ \E t \in TaskIds : run_stream_callback(t)
    \/ \E t \in TaskIds : queue_translation_result(t)
    \/ \E t \in TaskIds : translate_screen_captured(t)
    \/ \E t \in TaskIds : translate_screen_extracted(t)
    \/ \E t \in TaskIds : translate_screen_translated(t)

\* the api server: its requests, its monitor loop and its tasks
ServiceNext ==
    \/ \E h \in Sources : Service_select_window(h)
    \/ Service_reset_cache
    \/ Service_start_monitoring
    \/ Service_pause_monitoring
    \/ Service_stop_monitoring
    \/ Service_stop_current_task
    \/ Service_force_translation
    \/ \E t \in TaskIds : Service_force_resumes(t)
    \/ \E t \in TaskIds, shot \in Frames \cup {NoImage} : Service_force_captured(t, shot)
    \/ \E t \in TaskIds : Service_encode_image_returns(t)
    \/ \E t \in TaskIds, res \in {"text", "empty", "raise"} :
           Service_translate_screen_returns(t, res)
    \/ \E t \in TaskIds : Service_log_translation_returns(t)
    \/ \E l \in LoopIds, visible \in BOOLEAN : Service_monitor_loop_wakes(l, visible)
    \/ \E l \in LoopIds, shot \in Frames \cup {NoImage} :
           Service_monitor_loop_captured(l, shot)
    \/ \E l \in LoopIds, raised \in BOOLEAN : Service_monitor_loop_compared(l, raised)

\* the app with a client that drives the task (select, force-now, stop)
TaskNext ==
    \/ \E h \in {1} : select_window(h)
    \/ force_translation
    \/ stop_task
    \/ TaskSteps({"f1"}, {"text"})

\* the app with a client that drives the monitor loop (select, cache reset,
\* start, pause, stop)
MonitorNext ==
    \/ \E h \in Sources : select_window(h)
    \/ reset_cache
    \/ control_monitoring_start
    \/ control_monitoring_pause
    \/ control_monitoring_stop
    \/ \E l \in LoopIds : monitoring_task_begin(l)
    \/ \E l \in LoopIds : monitoring_task_exit(l)
    \/ \E l \in LoopIds, visible \in BOOLEAN, shot \in Frames \cup {NoImage} :
           monitoring_task_cycle(l, visible, shot)
    \/ TaskSteps(Frames, {"text"})

\* the app with a client that starts the monitor loop and also forces translations
ForceNext ==
    \/ \E h \in {1} : select_window(h)
    \/ control_monitoring_start
    \/ force_translation
    \/ \E l \in LoopIds : monitoring_task_begin(l)
    \/ \E l \in LoopIds, shot \in {"f1", "f2"} : monitoring_task_cycle(l, TRUE, shot)
    \/ TaskSteps({"f1"}, {"text"})

\* the app with a window whose capture can fail and backends that can fail
FailureNext ==
    \/ \E h \in {1} : select_window(h)
    \/ control_monitoring_start
    \/ force_translation
    \/ \E l \in LoopIds : monitoring_task_begin(l)
    \/ \E l \in LoopIds, shot \in {"f1", NoImage} : monitoring_task_cycle(l, TRUE, shot)
    \/ TaskSteps({"f1", NoImage}, {"text", "failed"})

\* the api server with a client that repeats the start request and pauses or
\* stops the monitor while loops are capturing, comparing or sleeping
PauseNext ==
    \/ \E h \in {1} : Service_select_window(h)
    \/ Service_start_monitoring_n(MaxStarts)
    \/ Service_pause_monitoring
    \/ Service_stop_monitoring
    \/ \E t \in TaskIds : Service_encode_image_returns(t)
    \/ \E t \in TaskIds : Service_translate_screen_returns(t, "text")
    \/ \E t \in TaskIds : Service_log_translation_returns(t)
    \/ \E l \in LoopIds, visible \in BOOLEAN : Service_monitor_loop_wakes(l, visible)
    \/ \E l \in LoopIds, shot \in Frames : Service_monitor_loop_captured(l, shot)
    \/ \E l \in LoopIds : Service_monitor_loop_compared(l, FALSE)

\* the app with a client that forces and stops translations while the tickers
\* of the tasks run
TickerNext ==
    \/ \E h \in {1} : select_window(h)
    \/ force_translation
    \/ stop_task
    \/ \E t \in TaskIds : update_task_timer(t)
    \/ \E t \in TaskIds : screenshot_returns(t, "f1")
    \/ \E t \in TaskIds : extract_text_returns(t, "text")
    \/ \E t \in TaskIds : translate_text_returns(t, "text")
    \/ \E t \in TaskIds : queue_translation_result(t)
    \/ \E t \in TaskIds : translate_screen_captured(t)
    \/ \E t \in TaskIds : translate_screen_extracted(t)
    \/ \E t \in TaskIds : translate_screen_translated(t)

\* the desktop program with a user who selects windows and toggles the pipeline
GuiNext ==
    \/ \E h \in Sources : OCRApp_select_hwnd(h)
    \/ OCRApp_toggle_pipeline
    \/ OCRApp_update_timers
    \/ \E visible \in BOOLEAN, shot \in Frames \cup {NoImage} :
           OCRApp_ocr_loop(visible, shot)
    \/ OCRApp_ocr_image_raises

\* PATCH /settings with a new timeout
TimeoutRequest == [given |-> {"timeout"}, check_interval |-> 5,
                   similarity_threshold |-> 95, timeout |-> 60]

\* both servers with a client that forces translations and changes the timeout
\* while they run
SnapshotNext ==
    \/ \E h \in {1} : select_window(h)
    \/ force_translation
    \/ update_settings(TimeoutRequest)
    \/ \E t \in TaskIds : screenshot_returns(t, "f1")
    \/ \E t \in TaskIds : extract_text_returns(t, "text")
    \/ \E t \in TaskIds : translate_text_returns(t, "text")
    \/ \E t \in TaskIds : queue_translation_result(t)
    \/ \E t \in TaskIds : translate_screen_captured(t)
    \/ \E t \in TaskIds : translate_screen_extracted(t)
    \/ \E t \in TaskIds : translate_screen_translated(t)
    \/ \E h \in {1} : Service_select_window(h)
    \/ Service_force_translation
    \/ Service_update_settings(TimeoutRequest)
    \/ \E t \in TaskIds : Service_force_resumes(t)
    \/ \E t \in TaskIds : Service_force_captured(t, "f1")
    \/ \E t \in TaskIds : Service_encode_image_returns(t)
    \/ \E t \in TaskIds : Service_translate_screen_returns(t, "text")
    \/ \E t \in TaskIds : Service_log_translation_returns(t)

\* the steps of the app's task t that the executor threads and the event loop
\* take without the client: every backend call returns, with any of its outcomes
translate_screen_runs(t) ==
    \/ screenshot_returns(t, "f1")
    \/ \E res \in {"text", "empty"} : extract_text_returns(t, res)
    \/ \E res \in {"text", "failed"} : translate_text_returns(t, res)
    \/ queue_translation_result(t)
    \/ translate_screen_captured(t)
    \/ translate_screen_extracted(t)
    \/ translate_screen_translated(t)

\* the steps of the api's task t: force_translation after its suspensions and
\* _start_translation_task, every backend call returning any of its outcomes
Service_start_translation_task_runs(t) ==
    \/ Service_force_resumes(t)
    \/ \E shot \in Frames \cup {NoImage} : Service_force_captured(t, shot)
    \/ Service_encode_image_returns(t)
    \/ \E res \in {"text", "empty", "raise"} : Service_translate_screen_returns(t, res)
    \/ Service_log_translation_returns(t)

\* the steps of the api's monitor loop l on a visible window whose capture
\* succeeds
Service_monitor_loop_runs(l) ==
    \/ Service_monitor_loop_wakes(l, TRUE)
    \/ \E shot \in Frames : Service_monitor_loop_captured(l, shot)
    \/ Service_monitor_loop_compared(l, FALSE)

\* the api server with a client that starts the monitor and forces translations,
\* and never pauses or stops the monitor
ChangeNext ==
    \/ \E h \in {1} : Service_select_window(h)
    \/ Service_start_monitoring
    \/ Service_force_translation
    \/ \E l \in LoopIds : Service_monitor_loop_runs(l)
    \/ \E t \in TaskIds : Service_start_translation_task_runs(t)

\* the steps of task t on either server
TaskRuns(t) ==
    \/ translate_screen_runs(t)
    \/ Service_force_resumes(t)
    \/ \E shot \in {"f1", NoImage} : Service_force_captured(t, shot)
    \/ Service_encode_image_returns(t)
    \/ \E res \in {"text", "empty", "raise"} : Service_translate_screen_returns(t, res)
    \/ Service_log_translation_returns(t)

\* the steps of the app's monitor loop l on a visible window
monitoring_task_runs(l) ==
    \/ monitoring_task_begin(l)
    \/ monitoring_task_exit(l)
    \/ monitoring_task_cycle(l, TRUE, "f1")

\* the app with a client that starts, pauses and stops the monitor at any time
RestartNext ==
    \/ \E h \in {1} : select_window(h)
    \/ control_monitoring_start
    \/ control_monitoring_pause
    \/ control_monitoring_stop
    \/ \E l \in LoopIds : monitoring_task_runs(l)
    \/ \E t \in TaskIds : translate_screen_runs(t)

\* both servers with a client that starts the monitor and stops tasks, and never
\* pauses or stops the monitor
StopNext ==
    \/ \E h \in {1} : select_window(h)
    \/ control_monitoring_start
    \/ stop_task
    \/ \E l \in LoopIds : monitoring_task_runs(l)
    \/ \E t \in TaskIds : translate_screen_runs(t)
    \/ \E h \in {1} : Service_select_window(h)
    \/ Service_start_monitoring
    \/ Service_stop_current_task
    \/ \E l \in LoopIds : Service_monitor_loop_wakes(l, TRUE)
    \/ \E l \in LoopIds, shot \in Frames : Service_monitor_loop_captured(l, shot)
    \/ \E l \in LoopIds : Service_monitor_loop_compared(l, FALSE)
    \/ \E t \in TaskIds : Service_encode_image_returns(t)
    \/ \E t \in TaskIds : Service_translate_screen_returns(t, "text")
    \/ \E t \in TaskIds : Service_log_translation_returns(t)

\* both servers with a client that forces, stops and (api) starts and pauses the
\* monitor while tasks run
TerminationNext ==
    \/ \E h \in {1} : select_window(h)
    \/ force_translation
    \/ stop_task
    \/ \E h \in {1} : Service_select_window(h)
    \/ Service_force_translation
    \/ Service_stop_current_task
    \/ Service_start_monitoring
    \/ Service_pause_monitoring
    \/ \E l \in LoopIds : Service_monitor_loop_wakes(l, TRUE)
    \/ \E l \in LoopIds : Service_monitor_loop_captured(l, "f1")
    \/ \E l \in LoopIds : Service_monitor_loop_compared(l, FALSE)
    \/ \E t \in TaskIds : TaskRuns(t)

\* the thresholds handed to the gate, in percent
Thresholds == {50, 90, 100, 120}

\* the similarity gate on its own, over every pair of bitmaps
GateNext ==
    \E img1 \in Bitmaps, img2 \in Bitmaps, threshold \in Thresholds,
       conv1 \in BOOLEAN, conv2 \in BOOLEAN, raised \in BOOLEAN :
        compare_images(img1, img2, threshold, conv1, conv2, raised)

\* the settings of either server under every request, beside a selection and
\* the monitor switch
SettingsNext ==
    \/ \E req \in SettingsUpdateRequest : update_settings(req)
    \/ \E req \in SettingsUpdateRequest : Service_update_settings(req)
    \/ \E h \in Sources : select_window(h)
    \/ \E h \in Sources : Service_select_window(h)
    \/ control_monitoring_pause
    \/ Service_pause_monitoring

\* the one settings request of the control environment
IntervalRequest == [given |-> {"check_interval"}, check_interval |-> 5,
                    similarity_threshold |-> 95, timeout |-> 60]

\* the requests of a client of either server, with pipelines (without their
\* progress threads) to fill the results
ControlNext ==
    \/ connect("a")
    \/ disconnect("a")
    \/ \E h \in {1} : select_window(h)
    \/ reset_cache
    \/ control_monitoring_start
    \/ control_monitoring_pause
    \/ control_monitoring_stop
    \/ force_translation
    \/ stop_task
    \/ update_settings(IntervalRequest)
    \/ clear_results
    \/ \E t \in TaskIds : delete_result(t)
    \/ \E t \in TaskIds : screenshot_returns(t, "f1")
    \/ \E t \in TaskIds : extract_text_returns(t, "text")
    \/ \E t \in TaskIds : translate_text_returns(t, "text")
    \/ \E t \in TaskIds : queue_translation_result(t)
    \/ \E t \in TaskIds : translate_screen_captured(t)
    \/ \E t \in TaskIds : translate_screen_extracted(t)
    \/ \E t \in TaskIds : translate_screen_translated(t)
    \/ \E h \in {1} : Service_select_window(h)
    \/ Service_reset_cache
    \/ Service_start_monitoring
    \/ Service_pause_monitoring
    \/ Service_stop_monitoring
    \/ Service_stop_current_task
    \/ Service_force_translation
    \/ \E t \in TaskIds : Service_force_resumes(t)
    \/ \E t \in TaskIds : Service_force_captured(t, "f1")
    \/ \E t \in TaskIds : Service_encode_image_returns(t)
    \/ \E t \in TaskIds : Service_translate_screen_returns(t, "text")
    \/ \E t \in TaskIds : Service_log_translation_returns(t)
    \/ Service_update_settings(IntervalRequest)
    \/ Service_clear_results
    \/ \E t \in TaskIds : Service_delete_result(t)

\* the websocket clients and the coroutines that broadcast to them
FanoutNext ==
    \/ \E s \in Clients : connect(s)
    \/ \E s \in Clients : disconnect(s)
    \/ ws_message_queue_put
    \/ process_ws_messages
    \/ broadcast_status
    \/ \E c \in Casters, ok \in BOOLEAN : broadcast_send(c, ok)
    \/ \E c \in Casters : broadcast_cleanup(c)

SpecPause == Init /\ [][PauseNext]_vars
SpecTicker == Init /\ [][TickerNext]_vars
SpecGui == Init /\ [][GuiNext]_vars
SpecSnapshot == Init /\ [][SnapshotNext]_vars
\* the executor returns every call and the event loop runs every handle it holds
SpecTermination ==
    Init /\ [][TerminationNext]_vars /\ \A t \in TaskIds : WF_vars(TaskRuns(t))
\* the event loop runs the monitor loop and the tasks it awaits
SpecRestart ==
    /\ Init /\ [][RestartNext]_vars
    /\ \A l \in LoopIds : WF_vars(monitoring_task_runs(l))
    /\ \A t \in TaskIds : WF_vars(translate_screen_runs(t))
SpecStop == Init /\ [][StopNext]_vars
\* the event loop runs the monitor loop, the force handler and the tasks
SpecChange ==
    /\ Init /\ [][ChangeNext]_vars
    /\ \A l \in LoopIds : WF_vars(Service_monitor_loop_runs(l))
    /\ \A t \in TaskIds : WF_vars(Service_start_translation_task_runs(t))
SpecGate == Init /\ [][GateNext]_vars
SpecSettings == Init /\ [][SettingsNext]_vars
SpecControl == Init /\ [][ControlNext]_vars
SpecFailure == Init /\ [][FailureNext]_vars
SpecFanout == Init /\ [][FanoutNext]_vars
SpecService == Init /\ [][ServiceNext]_vars
SpecTask == Init /\ [][TaskNext \/ ServiceNext]_vars
SpecMonitor == Init /\ [][MonitorNext]_vars
SpecForce == Init /\ [][ForceNext]_vars
\* the monitor loops of both servers
SpecLoop == Init /\ [][MonitorNext \/ ServiceNext]_vars

(* ---------------------------------------------------------------- claims *)
StageRank(stage) == CASE stage = "capturing" -> 1
                      [] stage = "ocr" -> 2
                      [] stage = "translating" -> 3
                      [] OTHER -> 4

\* C1: single-flight. In every reachable state at most one translation task is
\* in a non-terminal stage, whatever the interleaving of the monitor loop's
\* cycles and the force-now requests.
C1_SingleFlight == Cardinality(RunningTasks) <= 1

\* C2: admission control. A start issued while a task is in a non-terminal stage
\* creates no second task: no step taken while a task is running hands out a
\* task id.
C2_AdmissionControl == [][RunningTasks # {} => next_id' = next_id]_vars

\* C3: force-now while a monitor-triggered task is running either is rejected or
\* cancels that task; the monitor-triggered pipeline and the pipeline of a
\* force-now issued after it (task ids are handed out in order) are never both
\* executing.
C3_ForceNowPolicy ==
    \A t, u \in TaskIds :
        ~(t < u /\ tasks[t].trigger = "monitor" /\ Running(t)
          /\ tasks[u].trigger = "force" /\ Running(u))

\* C4: cancellation stops emission. No progress event that a task built after
\* its stop was called is published for its id.
C4_CancelStopsProgress ==
    \A t \in TaskIds : \A i \in 1..Len(published[t]) :
        ~(published[t][i].is_streaming /\ published[t][i].after_stop)

\* C5: a cancelled task never completes. No result with stage "completed" and
\* is_streaming = false is emitted for a task after its stop was called.
C5_CancelledNeverCompletes ==
    \A t \in TaskIds : \A i \in 1..Len(published[t]) :
        (published[t][i].stage = "completed" /\ ~published[t][i].is_streaming)
            => ~published[t][i].after_stop

\* C6: on cancel the task state is idle as soon as the call returns, whatever
\* the stage of the task: every step in which a stop reaches an executing task
\* ends with is_running = false.
C6_CancelLeavesIdle ==
    [][(\E t \in TaskIds : ~tasks[t].stopped /\ tasks'[t].stopped)
           => ~task_state'.is_running]_vars

\* C6 witness: a stopped task is still translating while the task state is idle
C6_StoppedWhileTranslating ==
    \E t \in TaskIds :
        tasks[t].stopped /\ tasks[t].pc = "translating" /\ ~task_state.is_running

\* C7: stage ordering. In the events published for one task no earlier stage
\* follows a later one; in particular no ocr progress event follows the first
\* translating event.
C7_StageOrder ==
    \A t \in TaskIds : \A i, j \in 1..Len(published[t]) :
        i < j => StageRank(published[t][i].stage) <= StageRank(published[t][j].stage)

\* C8: the terminal event (is_streaming = false) of a task id is the last event
\* published for it, and there is only one.
C8_TerminalIsLast ==
    \A t \in TaskIds : \A i \in 1..Len(published[t]) :
        ~published[t][i].is_streaming => i = Len(published[t])

\* C9: cache invalidation. The first monitor cycle on a visible source after the
\* selected source moved away from the cached one processes its frame, whatever
\* the similarity.
C9_SourceChangeProcesses ==
    last_cycle.after_change => last_cycle.outcome = "process"

\* C10: the first monitor cycle on a visible source after a cache reset
\* processes its frame, also when a task in flight at the reset finishes later.
C10_ResetProcesses ==
    last_cycle.after_reset => last_cycle.outcome = "process"

\* C11: duplicate-frame skip. A monitor cycle in which the cache holds a frame of
\* the same source and the gate reports the capture similar starts no task and
\* leaves the cached frame unchanged.
C11_DuplicateFrameSkips ==
    [][last_cycle'.gate = "similar"
           => /\ last_cycle'.outcome = "skip"
              /\ next_id' = next_id /\ tasks' = tasks
              /\ last_image' = last_image /\ last_hwnd' = last_hwnd]_vars

\* C11 witness: a cycle has just skipped a capture the gate found similar
C11_SimilarSkipped == last_cycle.gate = "similar" /\ last_cycle.outcome = "skip"

\* C12: changed-frame trigger. A monitor cycle in which the cache is empty or
\* holds another source, or in which the gate reports the capture not similar,
\* starts exactly one task when no task is running and none when one is.
C12_ChangedFrameTriggers ==
    [][(/\ last_cycle'.outcome # "none"
        /\ last_cycle'.gate # "similar"
        /\ \/ last_cycle'.gate = "different"
           \/ last_image = NoImage
           \/ last_hwnd # selected_hwnd)
           => IF RunningTasks = {}
              THEN next_id' = next_id + 1 /\ tasks'[next_id].pc \in NonTerminal
              ELSE next_id' = next_id]_vars

\* C13: pause leaves an in-flight task running to completion. No step ends a
\* running task as cancelled unless it is a stop of that task; a step that only
\* pauses the monitor loop lets the task go on.
C13_PauseKeepsTask ==
    [][\A t \in TaskIds :
           (Running(t) /\ ~tasks'[t].stopped) => tasks'[t].pc # "cancelled"]_vars

\* the events task t has built so far: those published and those still on their
\* way through the event loop
Emitted(t) ==
    Len(published[t]) + Cardinality({i \in 1..Len(ready[t]) : ready[t][i].k # "wake"})

\* C14: stop is pause plus cancel. A task that was in flight when control(stop)
\* was called builds no further event and does not complete.
C14_StopCancelsTask ==
    [][\A t \in TaskIds :
           tasks[t].halted => /\ tasks'[t].pc # "completed"
                              /\ Emitted(t)' = Emitted(t)]_vars

\* C15: the monitor loop is never fatal. While the loop's state is running (the
\* app's translation_task_running, the api's pipeline_running without
\* stop_event) a loop coroutine is alive to run the next cycle, also after a
\* capture or a comparison raised.
C15_LoopNeverFatal ==
    (translation_task_running \/ (pipeline_running /\ ~stop_event))
        => \E l \in LoopIds : loops[l].pc # "none"

\* C16: fan-out isolation. When a broadcast returns, every client that was
\* connected from its start to its end and whose send did not fail has been
\* sent the message, whatever was removed from the list in the meantime.
C16_FanoutIsolation ==
    [][\A c \in Casters :
           (casts[c].pc = "sending" /\ casts'[c].pc = "idle")
               => casts[c].stay \subseteq casts[c].got]_vars

\* C17: per-subscriber ordering. Every client receives the messages in the
\* order in which they were published (their numbers), whether they went
\* through the message queue or were broadcast directly.
C17_SubscriberOrder ==
    \A s \in Clients : \A i, j \in 1..Len(received[s]) :
        i < j => received[s][i] < received[s][j]

\* C18: empty extraction is not an error. When translate_screen resumes from an
\* extraction that returned the empty string, the task ends in stage completed,
\* the translating stage is not entered and no error-stage result is emitted.
C18_EmptyExtractionCompletes ==
    [][\A t \in TaskIds :
           (/\ tasks[t].pc = "ocr" /\ AtHead(t, "wake")
            /\ Head(ready[t]).res = "empty" /\ tasks'[t].pc # "ocr")
               => /\ tasks'[t].pc = "completed"
                  /\ \A i \in 1..Len(ready'[t]) : ready'[t][i].ev.stage # "error"]_vars

\* C19: backend failure. When translate_screen resumes from a translation whose
\* backend failed or timed out, the task ends in stage error, an error-stage
\* result is emitted, and the monitor loop that awaited the task sleeps until
\* its next cycle.
C19_BackendFailureIsError ==
    [][\A t \in TaskIds :
           (/\ tasks[t].pc = "translating" /\ AtHead(t, "wake")
            /\ Head(ready[t]).res = "failed" /\ tasks'[t].pc # "translating")
               => /\ tasks'[t].pc = "error"
                  /\ \E i \in 1..Len(ready'[t]) : ready'[t][i].ev.stage = "error"
                  /\ \A l \in LoopIds : loops[l].task = t => loops'[l].pc = "sleep"]_vars

\* C20: capture failure. When translate_screen resumes from a capture that
\* failed, the task ends in stage error: neither the extraction nor the
\* translation is started and the capture is not repeated.
C20_CaptureFailureIsError ==
    [][\A t \in TaskIds :
           (/\ tasks[t].pc = "capturing" /\ AtHead(t, "wake")
            /\ Head(ready[t]).img = Blank /\ tasks'[t].pc # "capturing")
               => /\ tasks'[t].pc = "error"
                  /\ \E i \in 1..Len(ready'[t]) : ready'[t][i].ev.stage = "error"]_vars

\* C21: invalid source. While no source is selected, no request switches the
\* monitor on or starts its loop, and none starts a task or changes the task
\* state (force-now and start are rejected).
C21_InvalidSourceRejected ==
    [][(selected_hwnd = NoHwnd /\ selected_hwnd' = NoHwnd)
           => /\ monitoring_paused => monitoring_paused'
              /\ ~pipeline_running => ~pipeline_running'
              /\ \A l \in LoopIds : loops[l].pc = "none" => loops'[l].pc = "none"
              /\ next_id' = next_id
              /\ task_state' = task_state]_vars

\* C22: every mutating control operation causes a status event: the handler of
\* every request that changes state calls broadcast_status.
C22_MutationPublishesStatus ==
    [][last_call'.op # "none" => last_call'.status]_vars

\* C23: settings bounds. The stored settings always satisfy check_interval >= 1,
\* 0 <= similarity_threshold <= 1 (100 percent) and timeout > 0.
C23_SettingsBounds ==
    /\ settings.check_interval >= 1
    /\ settings.similarity_threshold \in 0..100
    /\ settings.timeout > 0

C25_GateFailsOpen ==
    (compared.conv1 \/ compared.conv2 \/ compared.raised) => ~compared.out

\* C26: monitor loop control. While the monitor stays paused no cycle is taken
\* and no task is started by the loop; and whenever the monitor is running with
\* a source selected, a monitor loop is there to take the cycles.
C26_ControlStateMachine ==
    [][/\ (monitoring_paused /\ monitoring_paused')
           => /\ last_cycle'.outcome = "none"
              /\ \A t \in TaskIds : (tasks[t].pc = "none" /\ tasks'[t].pc # "none")
                                         => tasks'[t].trigger # "monitor"
       /\ (~monitoring_paused' /\ selected_hwnd' # NoHwnd)
           => \E l \in LoopIds : loops'[l].pc # "none"]_vars

\* C27: a monitor cycle on a source that is not visible (or with no source
\* selected) starts no task, whatever the frame cache holds.
C27_InvisibleSourceSkips ==
    [][(last_cycle'.outcome # "none" /\ ~last_cycle'.visible)
           => /\ last_cycle'.outcome = "skip"
              /\ next_id' = next_id /\ tasks' = tasks]_vars

\* C28: frame cache bookkeeping. A cycle that skips leaves the cache unchanged.
\* A cycle that decides to process caches the new frame and its source whatever
\* the task does: where the frame is captured before the decision the cache
\* holds it as the decision is taken, and where the task captures it the cache
\* holds it when the task of the cycle ends (with no cache reset and no change
\* of source since the decision).
C28_CacheBookkeeping ==
    [][/\ last_cycle'.outcome = "skip"
              => last_image' = last_image /\ last_hwnd' = last_hwnd
       /\ (server = "api" /\ last_cycle'.outcome = "process")
              => last_image' # NoImage /\ last_hwnd' = selected_hwnd
       /\ \A t \in TaskIds :
              (/\ tasks[t].trigger = "monitor" /\ tasks[t].img # NoImage
               /\ tasks[t].pc \in NonTerminal /\ tasks'[t].pc \notin NonTerminal
               /\ ~source_changed' /\ ~reset_pending')
              => last_image' = tasks[t].img /\ last_hwnd' = tasks[t].hwnd]_vars

\* C29: prompt cooperative stop. From the return of control(pause) or
\* control(stop) until control(start) is called again (the monitor is paused
\* before and after the step), no monitor loop requests a capture, no loop
\* takes the decision of a cycle and no task is started by a loop.
C29_PausedLoopIsQuiet ==
    [][(monitoring_paused /\ monitoring_paused')
           => /\ last_cycle'.outcome = "none"
              /\ \A l \in LoopIds : loops'[l].pc = "shot" => loops[l].pc = "shot"
              /\ \A t \in TaskIds : tasks'[t].trigger = "monitor"
                                        => tasks[t].trigger = "monitor"]_vars

\* C30: the elapsed-time ticker of a task. The ticker of a task puts a
\* task-progress event on the queue only while its task is in a non-terminal
\* state and has not been stopped, and for as long as its task is executing
\* (non-terminal and not stopped) the ticker is alive.
C30_TickerFollowsTask ==
    [][\A t \in TaskIds :
           /\ tasks'[t].ticks > tasks[t].ticks
                  => tasks[t].pc \in NonTerminal /\ ~tasks[t].stopped
           /\ (tasks'[t].pc \in NonTerminal /\ ~tasks'[t].stopped)
                  => tasks'[t].timer]_vars

\* C31: thread handoff. A step taken by a worker thread mutates no shared state
\* (task state, frame cache, results) and publishes nothing: in the desktop
\* program a step of the ocr_loop thread leaves the cached frame, the timer
\* flags and the error boxes as they are, and in the app a step of a worker
\* thread (it posts a progress callback or the completion of a backend call to
\* the event loop) leaves the task state, the frame cache, the results and the
\* published events as they are.
C31_ThreadHandoff ==
    [][/\ gui'.by = "ocr_loop"
              => /\ gui'.last_image = gui.last_image
                 /\ gui'.ocr_timer_active = gui.ocr_timer_active
                 /\ gui'.ocr_time = gui.ocr_time
                 /\ gui'.translation_timer_active = gui.translation_timer_active
                 /\ gui'.errors = gui.errors
       /\ (\E t \in TaskIds : \/ tasks'[t].posts > tasks[t].posts
                              \/ tasks'[t].returned /\ ~tasks[t].returned)
              => /\ task_state' = task_state
                 /\ last_image' = last_image /\ last_hwnd' = last_hwnd
                 /\ results' = results
                 /\ published' = published]_vars

\* C32: settings snapshot. The timeout a task passes to its backend calls is
\* the value settings.timeout had when the task was started, whatever settings
\* updates are applied while the task is in flight.
C32_TimeoutSnapshot ==
    \A t \in TaskIds : tasks[t].timeout # 0 => tasks[t].timeout = tasks[t].timeout0

\* a task that has been started and has not ended: the app's
\* one_time_translation_task, the api's _start_translation_task
Started(ts, t) == IF server = "api" THEN ts[t].pc \in {"translating", "logging"}
                  ELSE ts[t].pc \in NonTerminal

\* C33: task termination. Every started task (the app's one_time_translation_task,
\* the api's _start_translation_task) eventually ends, and the step that ends
\* it, on the success path, on an error path or by cancellation, leaves the
\* task state idle.
C33_TaskTerminates ==
    /\ \A t \in TaskIds : Started(tasks, t) ~> ~Started(tasks, t)
    /\ [][\A t \in TaskIds : (Started(tasks, t) /\ ~Started(tasks', t))
                                 => ~task_state'.is_running]_vars

\* C33 witness: a task has ended with an error, another was cancelled or ended
\* without a result, and the task state is idle
C33_EndedIdle ==
    /\ ~task_state.is_running
    /\ \E t \in TaskIds : tasks[t].pc \in {"error", "cancelled", "empty"}
    /\ \E t \in TaskIds : tasks[t].pc = "completed"

\* C34: the result collection is append-only and most-recent-first. A step
\* changes it only by putting the result of a task that is executing at its
\* head, by removing one entry or by clearing it (and a removal is no step of a
\* task); and a task that finishes, completed or with an error, has added its
\* one result (in the step that ends it, or before its result was logged).
C34_ResultsMostRecentFirst ==
    [][/\ \/ results' = results
          \/ \E t \in TaskIds : /\ t \notin Elems(results)
                                /\ tasks[t].pc \in NonTerminal
                                /\ results' = <<t>> \o results
          \/ /\ \/ results' = <<>>
                \/ \E t \in Elems(results) : results' = Without(results, {t})
             /\ tasks' = tasks /\ task_state' = task_state
       /\ \A t \in TaskIds :
              (Started(tasks, t) /\ tasks'[t].pc \in {"completed", "error", "empty"})
                  => \/ tasks[t].pc = "logging"
                     \/ t \notin Elems(results) /\ results' = <<t>> \o results]_vars

\* C35: task-state accuracy. task_state.is_running is true exactly when a
\* translation pipeline is executing (a started task has not ended).
C35_TaskStateAccurate ==
    task_state.is_running <=> \E t \in TaskIds : Started(tasks, t)

\* C36: restart liveness. Whenever the monitor is on (control(start) has
\* returned and no pause or stop since) with a source selected, a monitor loop
\* eventually performs a cycle, unless the monitor is paused or stopped first
\* (or the model's task ids are used up).
C36_RestartLiveness ==
    [](( ~monitoring_paused /\ selected_hwnd # NoHwnd /\ next_id <= MaxTasks)
           => <>(\/ last_cycle.outcome # "none"
                 \/ monitoring_paused
                 \/ next_id > MaxTasks))

\* C37: at most one monitor loop is active at any time. For every sequence of
\* start, pause and stop requests no two loop instances are inside a cycle
\* (capturing, comparing or awaiting the task they started) at the same time.
C37_OneLoopCycles ==
    \A l1, l2 \in LoopIds :
        (loops[l1].pc \notin {"none", "sleep"} /\ loops[l2].pc \notin {"none", "sleep"})
            => l1 = l2

\* C38: task.stop() affects only the in-flight task. With a client that starts
\* the monitor and stops tasks but never pauses or stops the monitor, the
\* monitor stays on once started and a loop that is running never ends, so it
\* keeps performing cycles after every task.stop().
C38_StopLeavesLoop ==
    [][/\ monitoring_paused' => monitoring_paused
       /\ \A l \in LoopIds : loops[l].pc # "none" => loops'[l].pc # "none"]_vars

\* C39: no lost change. While the monitor loop is running and the source stays
\* visible, when a cycle of the loop has captured changed content f (the cycle
\* decided to process it and the cache holds f), a task for f is eventually
\* executing, unless the content does not stay stable (the cache holds another
\* frame) or the model's task ids are used up: also when the change was
\* captured while another task was running.
C39_NoLostChange ==
    \A f \in Frames :
        [](( last_cycle.outcome = "process" /\ last_image = f /\ next_id <= MaxTasks)
               => <>(\/ \E t \in TaskIds : /\ tasks[t].screenshot = f
                                           /\ tasks[t].pc \in {"translating", "logging"}
                     \/ last_image # f
                     \/ next_id > MaxTasks))

\* C40: a task that was cancelled by task.stop() adds no entry to the result
\* collection: no step inserts into results (whose length is translation_count)
\* the result of a task that a stop call had reached while it was in flight.
C40_StoppedTaskAddsNoResult ==
    [][\A t \in TaskIds :
           (tasks[t].stopped /\ t \notin Elems(results)) => t \notin Elems(results')]_vars

====
